---- MODULE Spec2Model ----
(***************************************************************************)
(* Model of src/app.py: the Streamlit script that loads the trade table,   *)
(* derives five summary tables plus a metrics mapping in load_trade_data   *)
(* (falling back to fixed sample data when anything in the try body        *)
(* raises) and then renders a metric row, five charts and a footer.        *)
(*                                                                         *)
(* Two specifications share the definitions below.                         *)
(*   Spec      one run of the script, from the call of load_trade_data     *)
(*             (line 240) to the end of the module body or the first       *)
(*             uncaught exception.  Line 62 strips every column label and  *)
(*             lines 68-69 index with a trailing blank, so the try body    *)
(*             of a run never gets past line 68: every run returns the     *)
(*             sample data of the except branch.                           *)
(*   SpecExpr  the two expressions of the try body that are functions of   *)
(*             numbers alone, the size percentages (lines 72-80, of the    *)
(*             three totals) and the density table (lines 104-118, of the  *)
(*             Total_Commercial column), each evaluated on its own on      *)
(*             drawn arguments; some arguments are the totals and the      *)
(*             Total_Commercial column that one table's size columns give. *)
(*             No run of the script evaluates lines 72-118.                *)
(*                                                                         *)
(* Numbers: counts are integers; a quotient is kept as an exact fraction   *)
(* n/d (the float result up to rounding), with nan, inf and -inf for the   *)
(* numpy results of a division by zero.  Coordinates (lines 151-181) are   *)
(* represented only by the presence of the 'lat' and 'lon' columns.        *)
(***************************************************************************)
EXTENDS Integers, Sequences, FiniteSets, TLC

VARIABLES input, pc, locals, ret, globals, ip, rendered, error

vars == <<input, pc, locals, ret, globals, ip, rendered, error>>

(***************************************************************************)
(* Bounds of the model.                                                    *)
(***************************************************************************)
\* longest table (Spec) and longest Total_Commercial column (SpecExpr) drawn
MaxRows == 2

(***************************************************************************)
(* Program constants.                                                      *)
(***************************************************************************)
\* upper edges of the first three density categories (lines 107-109)
Edge1 == 10
Edge2 == 50
Edge3 == 100
\* number of rows nlargest keeps (line 149)
TopN == 20

(***************************************************************************)
(* Values: a cell of the frame or a derived number.                        *)
(***************************************************************************)
Num(n) == [k |-> "num", n |-> n, d |-> 1]
NaN == [k |-> "nan", n |-> 0, d |-> 1]
PosInf == [k |-> "inf", n |-> 0, d |-> 1]
NegInf == [k |-> "ninf", n |-> 0, d |-> 1]
\* a cell holding text that read_csv could not parse as a number
Str == [k |-> "str", n |-> 0, d |-> 1]

IsNum(v) == v.k = "num"

Abs(n) == IF n < 0 THEN -n ELSE n

RECURSIVE GCD(_, _)
GCD(a, b) == IF b = 0 THEN a ELSE GCD(b, a % b)

\* the fraction n/d in lowest terms with a positive denominator (d # 0)
Rat(n, d) ==
    LET g == GCD(Abs(n), Abs(d))
        s == IF d < 0 THEN -1 ELSE 1
    IN [k |-> "num", n |-> (s * n) \div g, d |-> Abs(d) \div g]

\* numpy true division of two numbers: x / 0 is nan, inf or -inf, never an error
NpDiv(a, b) ==
    IF b.n = 0
    THEN IF a.n = 0 THEN NaN ELSE IF a.n > 0 THEN PosInf ELSE NegInf
    ELSE Rat(a.n * b.d, a.d * b.n)

\* v * 100
Times100(v) == IF IsNum(v) THEN Rat(v.n * 100, v.d) ELSE v

RECURSIVE ISum(_)
ISum(s) == IF s = <<>> THEN 0 ELSE Head(s) + ISum(Tail(s))

(***************************************************************************)
(* The frame: column labels and rows.  A label is the text of a header     *)
(* cell, kept as the column it names plus the number of blanks around it,  *)
(* so that stripping and indexing are carried out rather than assumed.     *)
(***************************************************************************)
Label(name, pad) == [name |-> name, pad |-> pad]

\* Index.str.strip of line 62 on one label
StripLabel(l) == [l EXCEPT !.pad = 0]

\* line 62: trade_df.columns = trade_df.columns.str.strip()
StripColumns(columns) == {StripLabel(l) : l \in columns}

\* the keys as the statements spell them (lines 65-69, 139, 149)
KeySmall == Label("small", 0)
KeyMedium == Label("medium", 0)
KeyLarge == Label("large", 0)
KeyService == Label("service", 1)
KeyFinancial == Label("financial", 1)
KeyRefArea == Label("refArea", 0)
KeyTown == Label("Town", 0)

KeyLabels == {KeySmall, KeyMedium, KeyLarge, KeyService, KeyFinancial, KeyRefArea, KeyTown}

\* trade_df[key]: a KeyError unless the key is one of the frame's labels
HasColumn(columns, key) == key \in columns

Column(rows, name) == [i \in 1..Len(rows) |-> rows[i][name]]

HasStr(col) == \E i \in 1..Len(col) : col[i].k = "str"

\* Series.sum() raises TypeError when text and numbers are mixed in a column
SumRaises(col) == HasStr(col) /\ \E i \in 1..Len(col) : col[i].k # "str"

\* Series.sum() with skipna: missing cells add nothing; a column of text
\* only is concatenated and stays text
ColSumSkipNaN(col) ==
    IF HasStr(col) THEN Str
    ELSE Num(ISum([i \in 1..Len(col) |-> IF IsNum(col[i]) THEN col[i].n ELSE 0]))

\* lines 65-69: trade_df[key].sum()
ColSum(col) == ColSumSkipNaN(col)

\* Series.fillna(0) on one cell
FillNa0(c) == IF c.k = "nan" THEN 0 ELSE c.n

(***************************************************************************)
(* 1. size_distribution (lines 71-80)                                      *)
(***************************************************************************)
\* a denominator that forgets the large institutions
SizeDenominatorNoLarge(ts, tm, tl) == Num(ts.n + tm.n)

\* the denominator of lines 76-78
SizeDenominator(ts, tm, tl) == Num(ts.n + tm.n + tl.n)

SizePercentage(c, ts, tm, tl) == Times100(NpDiv(c, SizeDenominator(ts, tm, tl)))

SizeDistribution(ts, tm, tl) ==
    ("Institution Size" :> <<"Small Institutions", "Medium Institutions", "Large Institutions">>)
    @@ ("Count" :> <<ts, tm, tl>>)
    @@ ("Percentage" :> <<SizePercentage(ts, ts, tm, tl),
                          SizePercentage(tm, ts, tm, tl),
                          SizePercentage(tl, ts, tm, tl)>>)

(***************************************************************************)
(* 2. activity_volume (lines 82-94)                                        *)
(***************************************************************************)
AveragePerTown(t, n) == IF n > 0 THEN NpDiv(t, Num(n)) ELSE Num(0)

ActivityVolume(ts, tm, tl, tsv, tf, n) ==
    ("Activity Type" :> <<"Small Commercial", "Medium Commercial", "Large Commercial",
                          "Service Institutions", "Financial Institutions">>)
    @@ ("Total Volume" :> <<ts, tm, tl, tsv, tf>>)
    @@ ("Average per Town" :> <<AveragePerTown(ts, n), AveragePerTown(tm, n),
                                AveragePerTown(tl, n), AveragePerTown(tsv, n),
                                AveragePerTown(tf, n)>>)

(***************************************************************************)
(* 3. Total_Commercial and business_density (lines 96-118)                 *)
(***************************************************************************)
\* a total that forgets the large institutions
TotalCommercialNoLarge(row) == FillNa0(row.small) + FillNa0(row.medium)

\* lines 97-101
TotalCommercial(row) == FillNa0(row.small) + FillNa0(row.medium) + FillNa0(row.large)

TotalCommercialColumn(rows) == [i \in 1..Len(rows) |-> TotalCommercial(rows[i])]

DensityCategories == <<"0-10 Institutions", "11-50 Institutions", "51-100 Institutions", "100+ Institutions">>

\* a variant whose second category starts at its lower edge (>= instead of >)
InCategoryClosedBelow(i, v) ==
    CASE i = 1 -> v >= 0 /\ v <= Edge1
      [] i = 2 -> v >= Edge1 /\ v <= Edge2
      [] i = 3 -> v > Edge2 /\ v <= Edge3
      [] OTHER -> v > Edge3

\* a variant whose third category stops short of its upper edge (< instead of <=)
InCategoryOpenAbove(i, v) ==
    CASE i = 1 -> v >= 0 /\ v <= Edge1
      [] i = 2 -> v > Edge1 /\ v <= Edge2
      [] i = 3 -> v > Edge2 /\ v < Edge3
      [] OTHER -> v > Edge3

\* the four boolean masks of lines 107-110 and 113-116
InCategory(i, v) ==
    CASE i = 1 -> v >= 0 /\ v <= Edge1
      [] i = 2 -> v > Edge1 /\ v <= Edge2
      [] i = 3 -> v > Edge2 /\ v <= Edge3
      [] OTHER -> v > Edge3

\* lines 106-111: mask.sum()
TownsCount(tc) == [i \in 1..4 |-> Cardinality({j \in 1..Len(tc) : InCategory(i, tc[j])})]

\* lines 112-117: trade_df[mask]['Total_Commercial'].sum()
TotalInstitutions(tc) ==
    [i \in 1..4 |-> ISum([j \in 1..Len(tc) |-> IF InCategory(i, tc[j]) THEN tc[j] ELSE 0])]

BusinessDensity(tc) ==
    ("Density Category" :> DensityCategories)
    @@ ("Towns Count" :> TownsCount(tc))
    @@ ("Total Institutions" :> TotalInstitutions(tc))

(***************************************************************************)
(* 4. service_penetration (lines 120-135)                                  *)
(***************************************************************************)
\* (column > 0): False for a missing cell
Active(c) == IsNum(c) /\ c.n > 0

ServicePenetration(rows, tsv, tf) ==
    LET n == Len(rows)
        cnt == <<Cardinality({i \in 1..n : Active(rows[i].service)}),
                 Cardinality({i \in 1..n : Active(rows[i].financial)}),
                 Cardinality({i \in 1..n : Active(rows[i].service) \/ Active(rows[i].financial)})>>
        tot == <<tsv, tf, Num(tsv.n + tf.n)>>
    IN ("Sector" :> <<"Service Institutions", "Non-Banking Financial", "Combined Service+Financial">>)
       @@ ("Total Count" :> tot)
       @@ ("Towns with Activity" :> cnt)
       @@ ("Avg per Active Town" :> [i \in 1..3 |-> NpDiv(tot[i], Num(cnt[i]))])

(***************************************************************************)
(* 5. Total_All_Business and top_commercial_towns (lines 137-181)          *)
(***************************************************************************)
TotalAllBusiness(row) == TotalCommercial(row) + FillNa0(row.service) + FillNa0(row.financial)

TotalAllBusinessColumn(rows) == [i \in 1..Len(rows) |-> TotalAllBusiness(rows[i])]

Min(a, b) == IF a < b THEN a ELSE b

\* position of row i in the stable descending order of v (keep='first')
StableRank(v, i) ==
    1 + Cardinality({j \in 1..Len(v) : v[j] > v[i] \/ (v[j] = v[i] /\ j < i)})

\* Series.nlargest, fast path (n < len): kth_smallest, then a mergesort
\* argsort of the candidates, then the first n of them
NLargestFast(v, n) == [r \in 1..n |-> CHOOSE i \in 1..Len(v) : StableRank(v, i) = r]

\* Series.nlargest, slow path (n >= len): sort_values(ascending=False) with
\* the default quicksort, which fixes the order of equal values on no build:
\* every descending arrangement of the rows is a possible result
NLargestSlow(v) ==
    {p \in [1..Len(v) -> 1..Len(v)] :
        /\ \A a, b \in 1..Len(v) : a # b => p[a] # p[b]
        /\ \A a \in 1..(Len(v) - 1) : v[p[a]] >= v[p[a + 1]]}

\* line 149: the possible row orders of trade_df.nlargest(20, 'Total_All_Business')
NLargestOrders(v, n) == IF n < Len(v) THEN {NLargestFast(v, n)} ELSE NLargestSlow(v)

\* lines 149-181: the selected rows with their original index; the loop of
\* lines 163-181 adds 'lat' and 'lon' as soon as it runs once
TopCommercialTowns(rows, order) ==
    [columns |-> {"Town", "Governorate", "Total_All_Business", "Total_Commercial"}
                 \cup (IF Len(order) > 0 THEN {"lat", "lon"} ELSE {}),
     rows |-> [r \in 1..Len(order) |->
                 [index |-> order[r],
                  Town |-> rows[order[r]].Town,
                  Total_All_Business |-> TotalAllBusiness(rows[order[r]]),
                  Total_Commercial |-> TotalCommercial(rows[order[r]])]]]

\* lines 184-191: the metrics mapping
Metrics(ts, tm, tl, tsv, tf, n) ==
    ("total_small" :> ts) @@ ("total_medium" :> tm) @@ ("total_large" :> tl)
    @@ ("total_service" :> tsv) @@ ("total_financial" :> tf) @@ ("total_towns" :> Num(n))

(***************************************************************************)
(* The try body (lines 59-191) as a sequence of statements.  FailStep is   *)
(* the first statement that raises, 0 when none does; the locals assigned  *)
(* before it stay assigned when control passes to the except branch.       *)
(*   1 read_csv (61)        2..6 the five totals (65-69)                   *)
(*   7 size_distribution    8 activity_volume    9 Total_Commercial        *)
(*   10 business_density    11 service_penetration   12 Governorate (139)  *)
(*   13 Total_All_Business  14 nlargest and column selection (149)         *)
(*   15 coordinates         16 st.success and return                       *)
(***************************************************************************)
TotalKey(s) ==
    CASE s = 2 -> KeySmall [] s = 3 -> KeyMedium [] s = 4 -> KeyLarge
      [] s = 5 -> KeyService [] OTHER -> KeyFinancial

StepRaises(s, columns, rows) ==
    CASE s \in 2..6 ->
            \* KeyError on the label, or TypeError inside sum()
            \/ ~HasColumn(columns, TotalKey(s))
            \/ SumRaises(Column(rows, TotalKey(s).name))
      [] s = 7 ->
            \* an empty frame has object columns whose sum is the int 0, and
            \* 0 / 0 on ints is ZeroDivisionError (nlargest would refuse the
            \* object column at line 149 otherwise); text totals are a TypeError
            \/ Len(rows) = 0
            \/ HasStr(Column(rows, "small"))
            \/ HasStr(Column(rows, "medium"))
            \/ HasStr(Column(rows, "large"))
      [] s = 8 ->
            \* text / int is a TypeError
            HasStr(Column(rows, "service")) \/ HasStr(Column(rows, "financial"))
      [] s = 12 -> ~HasColumn(columns, KeyRefArea)
      [] s = 14 -> ~HasColumn(columns, KeyTown)
      [] OTHER -> FALSE

FailStep(columns, rows) ==
    IF \E s \in 2..16 : StepRaises(s, columns, rows)
    THEN CHOOSE s \in 2..16 :
            /\ StepRaises(s, columns, rows)
            /\ \A t \in 2..(s - 1) : ~StepRaises(t, columns, rows)
    ELSE 0

\* the exception statement s raises (the text of line 194 is made from it)
Raised(s, columns, rows) ==
    CASE s = 1 -> "read_csv error"
      [] s \in 2..6 -> IF ~HasColumn(columns, TotalKey(s)) THEN "KeyError" ELSE "TypeError"
      [] s = 7 -> IF Len(rows) = 0 THEN "ZeroDivisionError" ELSE "TypeError"
      [] s = 8 -> "TypeError"
      [] OTHER -> "KeyError"

LocalNames ==
    {"total_small", "total_medium", "total_large", "total_service", "total_financial",
     "size_distribution", "activity_volume", "business_density", "service_penetration",
     "top_commercial_towns"}

\* the statement that assigns each local
AssignStep(nm) ==
    CASE nm = "total_small" -> 2 [] nm = "total_medium" -> 3 [] nm = "total_large" -> 4
      [] nm = "total_service" -> 5 [] nm = "total_financial" -> 6
      [] nm = "size_distribution" -> 7 [] nm = "activity_volume" -> 8
      [] nm = "business_density" -> 10 [] nm = "service_penetration" -> 11
      [] OTHER -> 14

LocalValue(nm, rows, order) ==
    LET ts == ColSum(Column(rows, "small"))
        tm == ColSum(Column(rows, "medium"))
        tl == ColSum(Column(rows, "large"))
        tsv == ColSum(Column(rows, "service"))
        tf == ColSum(Column(rows, "financial"))
    IN CASE nm = "total_small" -> ts
         [] nm = "total_medium" -> tm
         [] nm = "total_large" -> tl
         [] nm = "total_service" -> tsv
         [] nm = "total_financial" -> tf
         [] nm = "size_distribution" -> SizeDistribution(ts, tm, tl)
         [] nm = "activity_volume" -> ActivityVolume(ts, tm, tl, tsv, tf, Len(rows))
         [] nm = "business_density" -> BusinessDensity(TotalCommercialColumn(rows))
         [] nm = "service_penetration" -> ServicePenetration(rows, tsv, tf)
         [] OTHER -> TopCommercialTowns(rows, order)

\* the locals assigned when the try body stops at statement fail (0: at its end)
TryLocals(rows, order, fail) ==
    [nm \in {x \in LocalNames : fail = 0 \/ AssignStep(x) < fail} |->
        LocalValue(nm, rows, order)]

\* lines 184-191: the tuple the try body returns
PrimaryReturn(loc, n) ==
    [size_distribution |-> loc["size_distribution"],
     activity_volume |-> loc["activity_volume"],
     business_density |-> loc["business_density"],
     service_penetration |-> loc["service_penetration"],
     top_commercial_towns |-> loc["top_commercial_towns"],
     metrics |-> Metrics(loc["total_small"], loc["total_medium"], loc["total_large"],
                         loc["total_service"], loc["total_financial"], n)]

(***************************************************************************)
(* The except branch (lines 193-237): fixed sample data.                   *)
(***************************************************************************)
SampleSizeDistribution ==
    ("Institution Size" :> <<"Small Institutions", "Medium Institutions", "Large Institutions">>)
    @@ ("Count" :> <<Num(38940), Num(2612), Num(884)>>)
    @@ ("Percentage" :> <<Rat(917, 10), Rat(62, 10), Rat(21, 10)>>)

SampleActivityVolume ==
    ("Activity Type" :> <<"Small Commercial", "Medium Commercial", "Large Commercial",
                          "Service Institutions", "Financial Institutions">>)
    @@ ("Total Volume" :> <<Num(38940), Num(2612), Num(884), Num(1086), Num(682)>>)
    @@ ("Average per Town" :> <<Rat(343, 10), Rat(23, 10), Rat(8, 10), Rat(10, 10), Rat(6, 10)>>)

SampleBusinessDensity ==
    ("Density Category" :> DensityCategories)
    @@ ("Towns Count" :> <<450, 520, 120, 47>>)
    @@ ("Total Institutions" :> <<2800, 18500, 8900, 12236>>)

SampleServicePenetration ==
    ("Sector" :> <<"Service Institutions", "Non-Banking Financial", "Combined Service+Financial">>)
    @@ ("Total Count" :> <<Num(1086), Num(682), Num(1768)>>)
    @@ ("Towns with Activity" :> <<320, 180, 420>>)
    @@ ("Avg per Active Town" :> <<Rat(34, 10), Rat(38, 10), Rat(42, 10)>>)

SampleTopCommercialTowns ==
    [columns |-> {"Town", "Total_All_Business", "lat", "lon"},
     rows |-> <<[Town |-> "Beirut", Total_All_Business |-> 1250],
                [Town |-> "Tripoli", Total_All_Business |-> 890],
                [Town |-> "Sidon", Total_All_Business |-> 670],
                [Town |-> "Jounieh", Total_All_Business |-> 520],
                [Town |-> "Zahle", Total_All_Business |-> 480]>>]

SampleMetrics ==
    Metrics(Num(38940), Num(2612), Num(884), Num(1086), Num(682), 1137)

SampleReturn ==
    [size_distribution |-> SampleSizeDistribution,
     activity_volume |-> SampleActivityVolume,
     business_density |-> SampleBusinessDensity,
     service_penetration |-> SampleServicePenetration,
     top_commercial_towns |-> SampleTopCommercialTowns,
     metrics |-> SampleMetrics]

TableNames ==
    {"size_distribution", "activity_volume", "business_density", "service_penetration",
     "top_commercial_towns"}

\* lines 198-228: the five table names are rebound to the sample tables; the
\* totals the try body had assigned stay as they are
ExceptLocals(loc) ==
    [nm \in DOMAIN loc \cup TableNames |->
        IF nm \in TableNames THEN SampleReturn[nm] ELSE loc[nm]]

\* an except branch whose metrics keep a total the try body had computed
ExceptReturnKeepComputed(loc) ==
    [SampleReturn EXCEPT
        !.metrics =
            IF "total_small" \in DOMAIN loc /\ IsNum(loc["total_small"])
            THEN [@ EXCEPT !["total_small"] = loc["total_small"]] ELSE @]

\* lines 230-237: the five rebound tables and a metrics mapping of literals
ExceptReturn(loc) ==
    [size_distribution |-> ExceptLocals(loc)["size_distribution"],
     activity_volume |-> ExceptLocals(loc)["activity_volume"],
     business_density |-> ExceptLocals(loc)["business_density"],
     service_penetration |-> ExceptLocals(loc)["service_penetration"],
     top_commercial_towns |-> ExceptLocals(loc)["top_commercial_towns"],
     metrics |-> SampleMetrics]

\* line 194: st.error with the text of the exception
ErrorNotice(kind) ==
    CASE kind = "read_csv error" -> "st.error: read_csv error"
      [] kind = "KeyError" -> "st.error: KeyError"
      [] kind = "TypeError" -> "st.error: TypeError"
      [] OTHER -> "st.error: ZeroDivisionError"

(***************************************************************************)
(* The module body after the load (lines 239-381), block by block.  A      *)
(* block reads global names; a name that nothing has bound is a NameError, *)
(* which nothing catches, and the run ends there.                          *)
(***************************************************************************)
Script == <<"metrics", "viz1", "viz2", "viz3", "viz4", "viz5", "footer", "insights">>

\* line 240: the names the tuple assignment binds
LoadedNames == {"size_dist", "activity_vol", "business_dens", "service_pen", "map_data", "metrics"}

\* the data names each block reads
Uses(block) ==
    CASE block = "metrics" -> {"metrics"}                \* lines 243-253
      [] block = "viz1" -> {"size_dist"}                 \* lines 259-270
      [] block = "viz2" -> {"activity_vol"}              \* lines 273-285
      [] block = "viz3" -> {"business_conc"}             \* lines 290-306
      [] block = "viz4" -> {"service_pen"}               \* lines 309-322
      [] block = "viz5" -> {"map_data", "metrics"}       \* lines 325-360
      [] OTHER -> {}                                     \* lines 363-381

\* what a block puts on the page
Rendering(block, r) ==
    CASE block = "metrics" -> "metric row"
      [] block = "viz1" -> "1: size pie"
      [] block = "viz2" -> "2: activity-volume bar"
      [] block = "viz3" -> "3: concentration bar"
      [] block = "viz4" -> "4: service-penetration bar"
      [] block = "viz5" ->
            IF {"lat", "lon"} \subseteq r.top_commercial_towns.columns
            THEN "5: map" ELSE "5: summary bar"
      [] block = "footer" -> "footer"
      [] OTHER -> "insights expander"

\* line 245: the 'Total Commercial Institutions' headline
HeadlineTotal(r) ==
    r.metrics["total_small"].n + r.metrics["total_medium"].n + r.metrics["total_large"].n

\* line 268: size_dist["Count"].sum(), the pie's annotation
PieAnnotationTotal(r) ==
    ISum([i \in 1..3 |-> r.size_distribution["Count"][i].n])

(***************************************************************************)
(* Inputs.                                                                 *)
(***************************************************************************)
Row(town, s, m, l, sv, f) ==
    [Town |-> town, small |-> s, medium |-> m, large |-> l, service |-> sv, financial |-> f]

\* the header of the file: the two labels that lines 68-69 index with a
\* trailing blank carry that blank
RawHeader == KeyLabels

\* a header without blanks around any label
CleanHeader == StripColumns(KeyLabels)

\* the towns of a drawn table, by position
TownAt == <<"Tripoli", "Beirut", "Zahle", "Sidon", "Aley">>

Named(rows) == [i \in 1..Len(rows) |-> [rows[i] EXCEPT !.Town = TownAt[i]]]

TablesOver(R, n) == UNION {{Named(t) : t \in [1..k -> R]} : k \in 0..n}

\* rows of numeric columns: all zero, a row on the first category edge, a
\* negative count, missing cells
RunRows ==
    {Row("", Num(0), Num(0), Num(0), Num(0), Num(0)),
     Row("", Num(Edge1), Num(1), Num(0), Num(2), Num(0)),
     Row("", Num(-1), Num(0), Num(0), NaN, Num(1)),
     Row("", NaN, Num(1), NaN, Num(0), NaN)}

\* a row of a table whose 'small' column read_csv left as text
TextRow == Row("", Str, Num(0), Num(0), Num(0), Num(0))

Frame(columns, rows) == [fetch |-> TRUE, columns |-> columns, rows |-> rows]

\* read_csv raised (no network, 404, unparsable body)
FetchFailed == [fetch |-> FALSE, columns |-> {}, rows |-> <<>>]

\* what line 61 can be given in a run of the script
RunInputs ==
    {FetchFailed}
    \cup {Frame(h, t) : h \in {RawHeader, CleanHeader},
                        t \in TablesOver(RunRows, MaxRows) \cup (TablesOver({TextRow}, MaxRows) \ {<<>>})}
    \cup {Frame(RawHeader \ {l}, t) : l \in RawHeader, t \in TablesOver(RunRows, 1)}

\* arguments of the expressions: three totals as sum() gives them for
\* numeric columns, a Total_Commercial column (line 97) with values on and
\* around every category edge, and the three size columns of a table with
\* rows (a negative count, missing cells, a total above the last edge)
TotalValues == {-1, 0, 1, 2, Edge1}

ColumnValues ==
    {-1, 0, 1, Edge1, Edge1 + 1, Edge2, Edge2 + 1, Edge3, Edge3 + 1, 10 * Edge3 + 1}

SizeRows ==
    {Row("", Num(0), Num(0), Num(0), Num(0), Num(0)),
     Row("", Num(Edge1), Num(1), Num(0), Num(0), Num(0)),
     Row("", Num(-1), Num(0), Num(0), Num(0), Num(0)),
     Row("", NaN, Num(1), NaN, Num(0), Num(0)),
     Row("", Num(Edge3), NaN, Num(2), Num(0), Num(0))}

\* lines 65-67: the three size totals of a table
SizeTotals(rows) ==
    <<ColSum(Column(rows, "small")), ColSum(Column(rows, "medium")),
      ColSum(Column(rows, "large"))>>

\* arguments for either expression taken from one table: its size totals
\* and its Total_Commercial column
ColumnsInput(rows) ==
    [expr |-> "size columns",
     totals |-> SizeTotals(rows),
     column |-> TotalCommercialColumn(rows),
     rows |-> rows]

ExprInputs ==
    {[expr |-> "size_distribution", totals |-> <<Num(a), Num(b), Num(c)>>,
      column |-> <<>>, rows |-> <<>>] :
        a \in TotalValues, b \in TotalValues, c \in TotalValues}
    \cup {[expr |-> "business_density", totals |-> <<>>, column |-> col, rows |-> <<>>] :
        col \in UNION {[1..k -> ColumnValues] : k \in 0..MaxRows}}
    \cup {ColumnsInput(rows) : rows \in UNION {[1..k -> SizeRows] : k \in 1..MaxRows}}

(***************************************************************************)
(* Actions.                                                                *)
(***************************************************************************)
\* lines 59-191: fetch, strip the labels (line 62), then the statements up
\* to the return or to the first one that raises
LoadTry ==
    /\ pc = "load"
    /\ LET columns == StripColumns(input.columns)
           fail == IF input.fetch THEN FailStep(columns, input.rows) ELSE 1
       IN \E order \in (IF fail = 0
                         THEN NLargestOrders(TotalAllBusinessColumn(input.rows), TopN)
                         ELSE {<<>>}) :
            /\ locals' = TryLocals(input.rows, order, fail)
            /\ IF fail = 0
               THEN /\ ret' = PrimaryReturn(locals', Len(input.rows))
                    /\ rendered' = Append(rendered, "st.success")
                    /\ globals' = LoadedNames
                    /\ pc' = "script"
                    /\ UNCHANGED error
               ELSE /\ pc' = "except"
                    /\ error' = Raised(fail, columns, input.rows)
                    /\ UNCHANGED <<ret, rendered, globals>>
            /\ UNCHANGED <<input, ip>>

\* lines 193-237: report the exception, rebind the tables, return the sample data
LoadExcept ==
    /\ pc = "except"
    /\ rendered' = rendered \o <<ErrorNotice(error), "st.info">>
    /\ locals' = ExceptLocals(locals)
    /\ ret' = ExceptReturn(locals)
    /\ globals' = LoadedNames
    /\ error' = "none"
    /\ pc' = "script"
    /\ UNCHANGED <<input, ip>>

\* the next block of the module body finds its names and renders
RunBlock ==
    /\ pc = "script"
    /\ ip <= Len(Script)
    /\ Uses(Script[ip]) \subseteq globals
    /\ rendered' = Append(rendered, Rendering(Script[ip], ret))
    /\ ip' = ip + 1
    /\ pc' = IF ip = Len(Script) THEN "done" ELSE "script"
    /\ UNCHANGED <<input, locals, ret, globals, error>>

\* the next block reads a name that was never bound
RaiseNameError ==
    /\ pc = "script"
    /\ ip <= Len(Script)
    /\ ~(Uses(Script[ip]) \subseteq globals)
    /\ error' = "NameError"
    /\ pc' = "aborted"
    /\ UNCHANGED <<input, locals, ret, globals, ip, rendered>>

NoLocals == [nm \in {} |-> 0]

NoReturn == [none |-> TRUE]

Init ==
    /\ input \in RunInputs
    /\ pc = "load"
    /\ locals = NoLocals
    /\ ret = NoReturn
    /\ globals = {}
    /\ ip = 1
    /\ rendered = <<>>
    /\ error = "none"

Next == LoadTry \/ LoadExcept \/ RunBlock \/ RaiseNameError

Spec == Init /\ [][Next]_vars

\* lines 72-80 evaluated on three totals
EvalSizeDistribution ==
    /\ pc = "expr"
    /\ input.expr \in {"size_distribution", "size columns"}
    /\ locals' = ("size_distribution" :>
                    SizeDistribution(input.totals[1], input.totals[2], input.totals[3]))
    /\ pc' = "evaluated"
    /\ UNCHANGED <<input, ret, globals, ip, rendered, error>>

\* lines 104-118 evaluated on a Total_Commercial column
EvalBusinessDensity ==
    /\ pc = "expr"
    /\ input.expr \in {"business_density", "size columns"}
    /\ locals' = ("business_density" :> BusinessDensity(input.column))
    /\ pc' = "evaluated"
    /\ UNCHANGED <<input, ret, globals, ip, rendered, error>>

InitExpr ==
    /\ input \in ExprInputs
    /\ pc = "expr"
    /\ locals = NoLocals
    /\ ret = NoReturn
    /\ globals = {}
    /\ ip = 1
    /\ rendered = <<>>
    /\ error = "none"

NextExpr == EvalSizeDistribution \/ EvalBusinessDensity

SpecExpr == InitExpr /\ [][NextExpr]_vars

(***************************************************************************)
(* Vocabulary of the properties.                                           *)
(***************************************************************************)
\* load_trade_data has returned
Returned == pc \in {"script", "done", "aborted"}

TookPrimary == Returned /\ Len(rendered) > 0 /\ rendered[1] = "st.success"

TookFallback ==
    /\ Returned
    /\ Len(rendered) > 0
    /\ rendered[1] \in {ErrorNotice(k) : k \in {"read_csv error", "KeyError", "TypeError",
                                                "ZeroDivisionError"}}

\* the fetched file has the seven columns the try body reads, under their
\* labels with or without blanks around them, and its counts are numeric
CompleteTable ==
    /\ input.fetch
    /\ StripColumns(input.columns) = CleanHeader
    /\ \A j \in 1..Len(input.rows) :
          \A f \in {"small", "medium", "large", "service", "financial"} :
             input.rows[j][f].k # "str"

\* a row's commercial total read off its cells: a missing cell counts 0
CellCount(c) == IF IsNum(c) THEN c.n ELSE 0

RowCommercial(row) == CellCount(row.small) + CellCount(row.medium) + CellCount(row.large)

MissingCell(row) ==
    \E f \in {"small", "medium", "large", "service", "financial"} : row[f].k = "nan"

\* positions of the input rows below the first category, in some category's
\* range of values, and with a missing count
NegativeRows == {j \in 1..Len(input.rows) : RowCommercial(input.rows[j]) < 0}

InDomainRows == {j \in 1..Len(input.rows) : RowCommercial(input.rows[j]) >= 0}

MissingRows == {j \in 1..Len(input.rows) : MissingCell(input.rows[j])}

ColumnCellSum(f) == ISum([j \in 1..Len(input.rows) |-> CellCount(input.rows[j][f])])

TownsCountSum(r) == ISum(r.business_density["Towns Count"])

TotalInstitutionsSum(r) == ISum(r.business_density["Total Institutions"])

\* a + b on two floats: nan is absorbing, inf + -inf is nan
Plus(a, b) ==
    IF a.k = "nan" \/ b.k = "nan" THEN NaN
    ELSE IF IsNum(a) /\ IsNum(b) THEN Rat(a.n * b.d + b.n * a.d, a.d * b.d)
    ELSE IF IsNum(a) THEN b
    ELSE IF IsNum(b) THEN a
    ELSE IF a.k = b.k THEN a ELSE NaN

\* p[1] + p[2] + p[3], left to right
PercentageSum(p) == Plus(Plus(p[1], p[2]), p[3])

(***************************************************************************)
(* C1.  Every run of the script renders the five visualizations in order   *)
(* and then the footer; no step between the load and the footer aborts.    *)
(***************************************************************************)
FiveThenFooter ==
    <<"1: size pie", "2: activity-volume bar", "3: concentration bar",
      "4: service-penetration bar">>

\* C1 as stated: a run is never aborted, and a run that has ended has put
\* charts 1 to 4, chart 5 (map or summary bar) and the footer on the page,
\* in that order
C1_RendersAllFive ==
    /\ pc # "aborted"
    /\ pc = "done" =>
         \E k \in 1..Len(rendered) :
            /\ k + 5 <= Len(rendered)
            /\ \A i \in 1..4 : rendered[k + i - 1] = FiveThenFooter[i]
            /\ rendered[k + 4] \in {"5: map", "5: summary bar"}
            /\ rendered[k + 5] = "footer"

(***************************************************************************)
(* C2.  The 'Towns Count' column against the number of towns.              *)
(***************************************************************************)
\* the density table has been evaluated; its column has one value per row,
\* so line 190 (len(trade_df)) gives total_towns = Len(input.column)
DensityEvaluated == "business_density" \in DOMAIN locals

InDomainValues == {j \in 1..Len(input.column) : input.column[j] >= 0}

ClaimedCategory(v) ==
    IF v <= Edge1 THEN 1 ELSE IF v <= Edge2 THEN 2 ELSE IF v <= Edge3 THEN 3 ELSE 4

\* C3: when lines 104-118 are evaluated on a Total_Commercial column, every
\* value v >= 0 of the column satisfies the mask of its claimed category and
\* no other mask (10 in '0-10', 11..50 and 50 in '11-50', 100 in '51-100',
\* anything above 100 in '100+'), and 'Towns Count'[i] is the number of such
\* values whose claimed category is i
C3_OneCategoryLowerEdge ==
    "business_density" \in DOMAIN locals =>
        /\ \A j \in 1..Len(input.column) :
              input.column[j] >= 0 =>
                 \A i \in 1..4 :
                    InCategory(i, input.column[j]) <=> (i = ClaimedCategory(input.column[j]))
        /\ \A i \in 1..4 :
              locals["business_density"]["Towns Count"][i] =
                 Cardinality({j \in 1..Len(input.column) :
                                 /\ input.column[j] >= 0
                                 /\ ClaimedCategory(input.column[j]) = i})

\* the density table evaluated for a column with a value on the first edge
\* and a value far above the last edge
C3_Witness ==
    /\ "business_density" \in DOMAIN locals
    /\ \E j \in 1..Len(input.column) : input.column[j] = Edge1
    /\ \E j \in 1..Len(input.column) : input.column[j] > 10 * Edge3
    /\ locals["business_density"]["Towns Count"] = <<1, 0, 0, 1>>

(***************************************************************************)
(* C4.  A row below the first category is reported, not silently left out. *)
(***************************************************************************)
\* the result carries something beyond the five tables and the metrics
CarriesErrorList(r) ==
    DOMAIN r # {"size_distribution", "activity_volume", "business_density",
                "service_penetration", "top_commercial_towns", "metrics"}

\* C4 as stated: when the load returns for a complete table with a row whose
\* Total_Commercial is negative, the result carries an error list naming the
\* row, and the other rows are bucketed: the 'Towns Count' entries add up to
\* the number of rows that are not negative
C4_NegativeRowReported ==
    (Returned /\ CompleteTable /\ NegativeRows # {}) =>
        /\ CarriesErrorList(ret)
        /\ TownsCountSum(ret) = Cardinality(InDomainRows)

(***************************************************************************)
(* C5.  The three percentages of size_distribution add up to 100.          *)
(***************************************************************************)
\* C5: when lines 72-80 are evaluated on totals with
\* total_small + total_medium + total_large > 0 the 'Percentage' column sums
\* to 100 (as exact fractions; the floats differ from them by rounding only),
\* and so do the three percentages of the sample data (line 201)
C5_PercentagesSumTo100 ==
    /\ ("size_distribution" \in DOMAIN locals
        /\ input.totals[1].n + input.totals[2].n + input.totals[3].n > 0) =>
            PercentageSum(locals["size_distribution"]["Percentage"]) = Num(100)
    /\ PercentageSum(SampleSizeDistribution["Percentage"]) = Num(100)

\* the percentages evaluated for totals whose three shares are not whole
C5_Witness ==
    /\ "size_distribution" \in DOMAIN locals
    /\ input.totals[1].n + input.totals[2].n + input.totals[3].n > 0
    /\ \A i \in 1..3 : locals["size_distribution"]["Percentage"][i].d > 1

(***************************************************************************)
(* C6.  All-zero totals give percentages of 0.                             *)
(***************************************************************************)
\* C6 as stated: once the load has returned for a complete table whose
\* small, medium and large totals are all zero (a table with no rows
\* included), every 'Percentage' of size_distribution is 0
C6_ZeroTotalsZeroPercentages ==
    (/\ Returned
     /\ CompleteTable
     /\ \A f \in {"small", "medium", "large"} : ColumnCellSum(f) = 0) =>
        \A i \in 1..3 : ret.size_distribution["Percentage"][i] = Num(0)

(***************************************************************************)
(* C7.  top_commercial_towns: the top 20 by Total_All_Business, ties by    *)
(* Town name.                                                              *)
(***************************************************************************)
TownOrder == <<"Aley", "Beirut", "Jounieh", "Sidon", "Tripoli", "Zahle">>

\* position of a town's name in ascending lexical order
TownRank(t) == CHOOSE i \in 1..Len(TownOrder) : TownOrder[i] = t

\* rank of row i by Total_All_Business descending, then Town ascending
ClaimedRank(rows, i) ==
    LET v == [j \in 1..Len(rows) |-> RowCommercial(rows[j])
                                     + CellCount(rows[j].service)
                                     + CellCount(rows[j].financial)]
        t == [j \in 1..Len(rows) |-> TownRank(rows[j].Town)]
    IN 1 + Cardinality({j \in 1..Len(rows) :
            \/ v[j] > v[i]
            \/ v[j] = v[i] /\ t[j] < t[i]
            \/ v[j] = v[i] /\ t[j] = t[i] /\ j < i})

\* the towns the claim puts in the result, in its order
ClaimedTopTowns(rows) ==
    [r \in 1..Min(TopN, Len(rows)) |->
        rows[CHOOSE i \in 1..Len(rows) : ClaimedRank(rows, i) = r].Town]

\* C7 as stated: once the load has returned for a complete table,
\* top_commercial_towns lists the towns of its min(20, rows) largest rows,
\* equal rows chosen and ordered by Town
C7_TopTwentyTiesByTown ==
    (Returned /\ CompleteTable) =>
        [r \in 1..Len(ret.top_commercial_towns.rows) |-> ret.top_commercial_towns.rows[r].Town]
            = ClaimedTopTowns(input.rows)

(***************************************************************************)
(* C8.  A missing count is treated as 0 and does not make the load fail.   *)
(***************************************************************************)
\* C8 as stated: once the load has returned for a complete table with a
\* missing count, the result is not the sample data: each total is the sum
\* of the cells present and total_towns counts every row, the rows with a
\* missing count included
C8_MissingCountsAsZero ==
    (Returned /\ CompleteTable /\ MissingRows # {}) =>
        /\ ~TookFallback
        /\ ret.metrics["total_small"] = Num(ColumnCellSum("small"))
        /\ ret.metrics["total_medium"] = Num(ColumnCellSum("medium"))
        /\ ret.metrics["total_large"] = Num(ColumnCellSum("large"))
        /\ ret.metrics["total_service"] = Num(ColumnCellSum("service"))
        /\ ret.metrics["total_financial"] = Num(ColumnCellSum("financial"))
        /\ ret.metrics["total_towns"] = Num(Len(input.rows))

(***************************************************************************)
(* C9.  Whatever raises in the try body, the load returns the sample data. *)
(***************************************************************************)
\* the run's try body raises: the fetch fails, or a statement after it does
RunRaises ==
    ~input.fetch \/ FailStep(StripColumns(input.columns), input.rows) # 0

\* a table for the shape of what the try body returns
ShapeRow == Row("Beirut", Num(1), Num(0), Num(0), Num(0), Num(0))

\* the shape of what the try body returns (lines 184-191)
ReturnFields == DOMAIN PrimaryReturn(TryLocals(<<ShapeRow>>, <<1>>, 0), 1)

MetricKeys == DOMAIN PrimaryReturn(TryLocals(<<ShapeRow>>, <<1>>, 0), 1).metrics

\* the columns the module body reads from each table (lines 261-336)
ColumnsRead(nm) ==
    CASE nm = "size_distribution" -> {"Count", "Institution Size"}
      [] nm = "activity_volume" -> {"Activity Type", "Total Volume"}
      [] nm = "service_penetration" -> {"Sector", "Avg per Active Town", "Total Count"}
      [] nm = "top_commercial_towns" -> {"lat", "lon", "Total_All_Business", "Town"}
      [] OTHER -> {}

ColumnsOf(r, nm) == IF nm = "top_commercial_towns" THEN r[nm].columns ELSE DOMAIN r[nm]

\* C9: when the try body of a run raises, the except branch takes over and
\* load_trade_data returns (the module body goes on, no error is pending);
\* what it returns is the sample data and nothing of what the try body had
\* assigned, and it has the fields, metric keys and columns of a
\* primary-path result that the module body reads
C9_FallbackOnRaise ==
    /\ (pc = "except" /\ RunRaises) => ENABLED LoadExcept
    /\ (Returned /\ RunRaises) =>
         /\ TookFallback
         /\ ip = 1 => (pc = "script" /\ error = "none")
         /\ ret = SampleReturn
         /\ DOMAIN ret = ReturnFields
         /\ DOMAIN ret.metrics = MetricKeys
         /\ \A nm \in ReturnFields \ {"metrics"} : ColumnsRead(nm) \subseteq ColumnsOf(ret, nm)

\* the sample data returned after the try body had already assigned totals
\* of its own
C9_Witness ==
    /\ TookFallback
    /\ {"total_small", "total_medium", "total_large"} \subseteq DOMAIN locals
    /\ locals["total_small"] = Num(Edge1)
    /\ ret.metrics["total_small"] = Num(38940)

(***************************************************************************)
(* C10.  The grand total of commercial institutions across the outputs.    *)
(***************************************************************************)
\* one of the two expressions has been evaluated on arguments that a
\* table's size columns give
SizeEvaluated == input.expr = "size columns" /\ "size_distribution" \in DOMAIN locals

InstitutionsEvaluated == input.expr = "size columns" /\ "business_density" \in DOMAIN locals

\* total_small + total_medium + total_large (lines 185-187, 245) for the
\* totals of the table
TableHeadline == input.totals[1].n + input.totals[2].n + input.totals[3].n

\* the sum of the evaluated 'Count' column (line 268)
EvaluatedCountSum == ISum([i \in 1..3 |-> locals["size_distribution"]["Count"][i].n])

EvaluatedInstitutionsSum == ISum(locals["business_density"]["Total Institutions"])

\* the Total_Commercial of the rows below the first category, added up
NegativeValuesTotal ==
    ISum([j \in 1..Len(input.column) |-> IF input.column[j] < 0 THEN input.column[j] ELSE 0])

SampleTotalsAgree ==
    /\ PieAnnotationTotal(SampleReturn) = HeadlineTotal(SampleReturn)
    /\ TotalInstitutionsSum(SampleReturn) = HeadlineTotal(SampleReturn)

====
